---- MODULE Spec2Model ----
(***************************************************************************)
(* NicoTracker: the log store (localStorage), the check-in upsert, the     *)
(* wizard's confirm and the asynchronous import, as a state machine.       *)
(*                                                                         *)
(* Time is counted in ticks of 24/TicksPerDay hours.  A calendar date is   *)
(* the index of its day, a timestamp is the tick of its instant: both      *)
(* orders are those of the ISO-8601 strings the program stores.            *)
(*                                                                         *)
(* A JavaScript object is a function from its keys to their values.        *)
(* undefined and null are the values UndefN / NullN in numeric fields and  *)
(* UndefS / NullS in string fields.                                        *)
(***************************************************************************)
EXTENDS Integers, Sequences, FiniteSets, TLC

\* ------------------------------------------------------------------ bounds

\* The store holds at most MaxLogs records: appends and imports that would
\* exceed it are not taken.
MaxLogs == 3
\* The clock stops after MaxTicks ticks.
MaxTicks == 2
\* Math.random() yields one of MaxRand suffixes.
MaxRand == 2
\* At most MaxPending file reads are in flight.
MaxPending == 1
\* generateSampleLogs covers the past SampleDays days (7 in the source).
SampleDays == 1
\* The streak is computed over stores with records on the days 0..StreakDays.
StreakDays == 3
\* The charts are computed over stores of at most MaxChartLogs records.
MaxChartLogs == 3

\* ------------------------------------------------------------------ values

UndefN == 0 - 2
NullN == 0 - 1
UndefS == "<undefined>"
NullS == "<null>"

\* The clock's resolution: two ticks a day, at 0h and at 12h.
TicksPerDay == 2

HoursPerTick == 24 \div TicksPerDay

\* The first instant of the model's first day; the sample days lie before it.
StartTick == SampleDays * TicksPerDay

\* The undefined array (healthEffects is the one array-valued field).
UndefL == <<UndefS>>

NumFields == {"timestamp", "date", "amount", "estimatedMg", "focusLevel", "anxietyLevel"}
ListFields == {"healthEffects"}

\* undefined, as a value of the field's type.
Undef(key) ==
    IF key \in NumFields THEN UndefN
    ELSE IF key \in ListFields THEN UndefL ELSE UndefS

\* obj[key] of JavaScript: undefined when the key is absent.
Get(obj, key) == IF key \in DOMAIN obj THEN obj[key] ELSE Undef(key)

\* { ...a, ...b }
Spread(a, b) ==
    [k \in (DOMAIN a) \cup (DOMAIN b) |-> IF k \in DOMAIN b THEN b[k] ELSE a[k]]

\* JSON.parse(JSON.stringify(obj)) of one record: keys holding undefined are dropped.
JsonRecord(obj) ==
    LET kept == {k \in DOMAIN obj : obj[k] # Undef(k)}
    IN  [k \in kept |-> obj[k]]

\* Two objects with the same value under every key (an absent key reads undefined).
SameRecord(a, b) == \A k \in (DOMAIN a) \cup (DOMAIN b) : Get(a, k) = Get(b, k)

\* JSON.parse(JSON.stringify(logs)) of an array of records.
JsonRoundTrip(arr) == [i \in 1..Len(arr) |-> JsonRecord(arr[i])]

\* new Date().toISOString().split('T')[0]: the UTC calendar date of an instant.
IsoDate(t) == t \div TicksPerDay

\* date.getHours(): the local hour of an instant; off is getTimezoneOffset() in ticks.
GetHours(t, off) == ((t - off) % TicksPerDay) * HoursPerTick

getTimeOfDay(t, off) ==
    LET hour == GetHours(t, off)
    IN  IF hour >= 5 /\ hour < 12 THEN "morning"
        ELSE IF hour >= 12 /\ hour < 17 THEN "afternoon"
        ELSE IF hour >= 17 /\ hour < 22 THEN "evening"
        ELSE "night"

\* `${Date.now()}-${Math.random().toString(36).substr(2, 9)}`
generateId(t, rnd) == ToString(t) \o "-" \o ToString(rnd)

\* ------------------------------------------------------------------- state

VARIABLES
    logsSlot,          \* localStorage['nicotracker_logs']: absent, the array it parses
                       \* to, or a text that is no array of records
    settingsSlot,      \* localStorage['nicotracker_settings']: absent, or the object
    now,               \* the clock: Date.now(), in ticks
    tzOffset,          \* new Date().getTimezoneOffset(), in ticks
    appReady,          \* initApp has run: the listeners are attached
    currentWizardStep, \* app.js global
    wizardData,        \* app.js global
    wizardOpen,        \* the wizard modal is shown
    buttonsDisabled,   \* wizardNext.disabled and wizardConfirm.disabled: set together
    pending,           \* file reads in flight, each with the store as it was at its start
    last               \* the last handler or call: its arguments, result and notice

vars == <<logsSlot, settingsSlot, now, tzOffset, appReady, currentWizardStep,
          wizardData, wizardOpen, buttonsDisabled, pending, last>>

Absent == [tag |-> "absent", val |-> <<>>]
Stored(v) == [tag |-> "value", val |-> v]

\* Texts in the logs slot that saveLogs did not write: one JSON.parse throws on,
\* the text null, the text of an object that is no array.
CorruptTexts == {"unparsable", "jsonNull", "jsonObject"}
Corrupt(text) == [tag |-> text, val |-> <<>>]

\* ---------------------------------------------------------------- log store

\* -1 of Array.prototype.findIndex: sequences count from 1, so 0 is "no index".
NoIndex == 0

\* What kind of value loadLogs returns: JSON.parse's result, whatever it is, and []
\* when the slot is absent or JSON.parse throws.
loadLogsKind(slot) ==
    IF slot.tag = "jsonNull" THEN "null"
    ELSE IF slot.tag = "jsonObject" THEN "object"
    ELSE "array"

\* The array loadLogs returns, when it returns one.
loadLogsFrom(slot) == IF slot.tag = "value" THEN slot.val ELSE <<>>

loadLogs == loadLogsFrom(logsSlot)

\* What saveLogs leaves in the slot when the medium accepts the write.
saveLogs(logs) == Stored(JsonRoundTrip(logs))

\* logs.findIndex(log => log.id === logId)
findIndex(logs, logId) ==
    IF \E i \in 1..Len(logs) : Get(logs[i], "id") = logId
    THEN CHOOSE i \in 1..Len(logs) :
            /\ Get(logs[i], "id") = logId
            /\ \A j \in 1..(i - 1) : Get(logs[j], "id") # logId
    ELSE NoIndex

\* The record addLog builds and returns.
addLogRecord(logData, t, rnd) ==
    Spread(logData, [id |-> generateId(t, rnd), timestamp |-> t])

\* A faulty addLog over a saveLogs that only logs the medium's rejection (C12).
addLog_Swallow(slot, logData, t, rnd, accept) ==
    LET logs == loadLogsFrom(slot)
        newLog == addLogRecord(logData, t, rnd)
    IN  [status |-> "ok", message |-> "", value |-> newLog,
         slot |-> IF accept THEN saveLogs(Append(logs, newLog)) ELSE slot]

\* addLog: [status, message, value, slot]; accept is the medium's answer to setItem.
addLog(slot, logData, t, rnd, accept) ==
    LET logs == loadLogsFrom(slot)
        newLog == addLogRecord(logData, t, rnd)
    IN  IF loadLogsKind(slot) # "array"
        THEN [status |-> "throw", message |-> "TypeError", value |-> <<>>, slot |-> slot]
        ELSE IF accept
        THEN [status |-> "ok", message |-> "", value |-> newLog,
              slot |-> saveLogs(Append(logs, newLog))]
        ELSE [status |-> "throw", message |-> "Failed to save logs", value |-> <<>>,
              slot |-> slot]

\* A faulty updateLog that adds the record when the id is not found (C3).
updateLog_Upsert(slot, logId, updates, accept) ==
    LET logs == loadLogsFrom(slot)
        index == findIndex(logs, logId)
        created == Spread(updates, [id |-> logId])
    IN  IF index = NoIndex
        THEN [status |-> "ok", message |-> "", value |-> created,
              slot |-> saveLogs(Append(logs, created))]
        ELSE [status |-> "ok", message |-> "",
              value |-> Spread(logs[index], updates),
              slot |-> saveLogs([logs EXCEPT ![index] = Spread(@, updates)])]

\* A faulty updateLog that replaces the record by the updates (C4).
updateLog_Replace(slot, logId, updates, accept) ==
    LET logs == loadLogsFrom(slot)
        index == findIndex(logs, logId)
    IN  IF index = NoIndex
        THEN [status |-> "throw", message |-> "Log not found", value |-> <<>>,
              slot |-> slot]
        ELSE LET replaced == [logs EXCEPT ![index] = Spread(updates, [id |-> logId])]
             IN  [status |-> "ok", message |-> "", value |-> replaced[index],
                  slot |-> saveLogs(replaced)]

\* updateLog: [status, message, value, slot].
updateLog(slot, logId, updates, accept) ==
    LET logs == loadLogsFrom(slot)
        index == findIndex(logs, logId)
    IN  IF loadLogsKind(slot) # "array"
        THEN [status |-> "throw", message |-> "TypeError", value |-> <<>>, slot |-> slot]
        ELSE IF index = NoIndex
        THEN [status |-> "throw", message |-> "Log not found", value |-> <<>>,
              slot |-> slot]
        ELSE LET merged == [logs EXCEPT ![index] = Spread(@, updates)]
             IN  IF accept
                 THEN [status |-> "ok", message |-> "", value |-> merged[index],
                       slot |-> saveLogs(merged)]
                 ELSE [status |-> "throw", message |-> "Failed to save logs",
                       value |-> <<>>, slot |-> slot]

\* logs.filter(log => log.date === today), as the indices kept.
TodayIndices(logs, t) == {i \in 1..Len(logs) : Get(logs[i], "date") = IsoDate(t)}

\* A faulty getMostRecentLogToday without the filter on the date: the latest
\* record of any day (C6).
getMostRecentLogToday_AnyDay(logs, t) ==
    {logs[i] : i \in {j \in 1..Len(logs) :
        \A k \in 1..Len(logs) : Get(logs[j], "timestamp") >= Get(logs[k], "timestamp")}}

\* A faulty getMostRecentLogToday whose sort is ascending: the oldest of today (C7).
getMostRecentLogToday_Oldest(logs, t) ==
    LET today == {i \in 1..Len(logs) : Get(logs[i], "date") = IsoDate(t)}
    IN  {logs[i] : i \in {j \in today :
            \A k \in today : Get(logs[j], "timestamp") <= Get(logs[k], "timestamp")}}

\* getMostRecentLogToday: the records the call may return (none: it returns null).
\* The sort puts a record of the greatest timestamp first; among equal timestamps
\* the engine's sort decides which.
getMostRecentLogToday(logs, t) ==
    LET today == TodayIndices(logs, t)
    IN  {logs[i] : i \in {j \in today :
            \A k \in today : Get(logs[j], "timestamp") >= Get(logs[k], "timestamp")}}

\* ----------------------------------------------------------------- settings

DEFAULT_SETTINGS(off) ==
    [dailyMgLimit |-> 40, dailyEventLimit |-> 5, morningLimitEnabled |-> FALSE,
     timezoneOffsetMinutes |-> off * HoursPerTick * 60]

loadSettings(slot, off) ==
    IF slot.tag = "absent" THEN DEFAULT_SETTINGS(off)
    ELSE Spread(DEFAULT_SETTINGS(off), slot.val)

saveSettings(settings) == Stored(settings)

\* NaN, as a value of a numeric field.
NaN == 0 - 3

\* A text of an input field is the sequence of its characters.
Digits == <<"0", "1", "2", "3", "4", "5", "6", "7", "8", "9">>
IsDigit(c) == \E d \in 1..Len(Digits) : Digits[d] = c
DigitValue(c) == (CHOOSE d \in 1..Len(Digits) : Digits[d] = c) - 1

\* The value of the digits of text from position i on, up to the first character
\* that is no digit; acc is the value of the digits read so far.
RECURSIVE ParseDigits(_, _, _)
ParseDigits(text, i, acc) ==
    IF i > Len(text) \/ ~IsDigit(text[i]) THEN acc
    ELSE ParseDigits(text, i + 1, acc * 10 + DigitValue(text[i]))

\* The first position of text that holds no blank.
RECURSIVE SkipBlanks(_, _)
SkipBlanks(text, i) ==
    IF i <= Len(text) /\ text[i] = " " THEN SkipBlanks(text, i + 1) ELSE i

\* parseInt(text): blanks, a sign, then decimal digits up to the first other
\* character; NaN when there is no digit.
parseInt(text) ==
    LET start == SkipBlanks(text, 1)
        signed == start <= Len(text) /\ text[start] \in {"-", "+"}
        first == IF signed THEN start + 1 ELSE start
    IN  IF first > Len(text) \/ ~IsDigit(text[first]) THEN NaN
        ELSE IF signed /\ text[start] = "-" THEN 0 - ParseDigits(text, first, 0)
        ELSE ParseDigits(text, first, 0)

\* x || dflt of a number: NaN and 0 are falsy.
OrElse(x, dflt) == IF x \in {NaN, 0} THEN dflt ELSE x

\* The settings object saveSettingsFromUI builds from the two input fields.
settingsFromUI(mgText, eventText, off) ==
    [dailyMgLimit |-> OrElse(parseInt(mgText), 40),
     dailyEventLimit |-> OrElse(parseInt(eventText), 5),
     morningLimitEnabled |-> FALSE,
     timezoneOffsetMinutes |-> off * HoursPerTick * 60]

\* -------------------------------------------------------------- estimation

\* Strengths (a float of the slider) are counted in 1/StrengthScale mg and doses
\* in 1/(MgScale * StrengthScale) mg, so that strength / 200 * quantity is exact.
MgScale == 200
StrengthScale == 2

\* n mg, as a dose.
Mg(n) == n * MgScale * StrengthScale

\* A faulty calculateEstimatedMg that takes a vape's strength per puff (C14).
calculateEstimatedMg_PerPuff(source, quantity, strength) ==
    IF quantity <= 0 THEN 0
    ELSE IF strength <= 0 THEN 0
    ELSE IF source \in {"Vape", "Cigarettes", "Snus"} THEN strength * quantity * MgScale
    ELSE 0

calculateEstimatedMg(source, quantity, strength) ==
    IF quantity <= 0 THEN 0
    ELSE IF strength <= 0 THEN 0
    ELSE IF source = "Vape" THEN strength * quantity
    ELSE IF source = "Cigarettes" THEN strength * quantity * MgScale
    ELSE IF source = "Snus" THEN strength * quantity * MgScale
    ELSE 0

\* ------------------------------------------------------------------ streak

\* Instants of the streak's walk are counted in hours, days in HoursPerDay hours.
HoursPerDay == HoursPerTick * TicksPerDay

\* The browser's time zone: local time is UTC + before hours up to the instant
\* change, and UTC + after hours from it on (a daylight-saving transition when
\* the two differ).
LocalTZA(zone, u) == IF u < zone.change THEN zone.before ELSE zone.after

\* UTC(wall): the instant of a local wall-clock time; a wall time that the
\* transition repeats or skips is read with the offset before the transition.
UtcOfLocal(zone, wall) ==
    LET u1 == wall - zone.before
        u2 == wall - zone.after
    IN  IF u1 < zone.change THEN u1 ELSE IF u2 >= zone.change THEN u2 ELSE u1

\* currentDate.setDate(currentDate.getDate() - 1): the same local wall-clock time
\* on the previous local calendar day.
setDateBack(zone, u) == UtcOfLocal(zone, u + LocalTZA(zone, u) - HoursPerDay)

\* The while loop of calculateStreak from the instant u on.
RECURSIVE StreakWalk(_, _, _)
StreakWalk(datesWithLogs, zone, u) ==
    IF (u \div HoursPerDay) \in datesWithLogs
    THEN 1 + StreakWalk(datesWithLogs, zone, setDateBack(zone, u))
    ELSE 0

\* calculateStreak(), at the instant t (in ticks) in the time zone zone.
calculateStreak(logs, t, zone) ==
    IF Len(logs) = 0 THEN 0
    ELSE LET datesWithLogs == {Get(logs[i], "date") : i \in 1..Len(logs)}
             today == IsoDate(t)
         IN  StreakWalk(datesWithLogs, zone, today * HoursPerDay)

\* ------------------------------------------------------------------ charts

\* !x of a numeric field: undefined, null and 0 are falsy.
FalsyN(x) == x \in {UndefN, NullN, 0}

\* !s of a string field: undefined, null and the empty string are falsy.
FalsyS(s) == s \in {UndefS, NullS, ""}

\* level === null || level === undefined
NullishN(x) == x \in {UndefN, NullN}

\* A quotient of the program's arithmetic, kept exact: num / den, or null.
Rat(num, den) == [kind |-> "number", num |-> num, den |-> den]
NullRat == [kind |-> "null", num |-> 0, den |-> 1]
RatInt(n) == Rat(n, 1)
RatSub(a, b) == Rat(a.num * b.den - b.num * a.den, a.den * b.den)
RatAdd(a, b) == Rat(a.num * b.den + b.num * a.den, a.den * b.den)
RatMul(a, b) == Rat(a.num * b.num, a.den * b.den)
RatDiv(a, b) == Rat(a.num * b.den, a.den * b.num)
RatLess(a, b) == a.num * b.den < b.num * a.den
RatMin(a, b) == IF RatLess(b, a) THEN b ELSE a
RatMax(a, b) == IF RatLess(a, b) THEN b ELSE a

\* arr.reduce((a, b) => a + b, 0)
RECURSIVE SumSeq(_)
SumSeq(arr) == IF arr = <<>> THEN 0 ELSE arr[1] + SumSeq(Tail(arr))

\* arr.map(log => log[key])
MapField(arr, key) == [i \in 1..Len(arr) |-> Get(arr[i], key)]

\* The dose buckets, in doses of 1/(MgScale * StrengthScale) mg.
doseBuckets ==
    <<[min |-> Mg(0), max |-> Mg(5), label |-> "0-5 mg"],
      [min |-> Mg(5), max |-> Mg(10), label |-> "5-10 mg"],
      [min |-> Mg(10), max |-> Mg(15), label |-> "10-15 mg"],
      [min |-> Mg(15), max |-> Mg(20), label |-> "15-20 mg"],
      [min |-> Mg(20), max |-> Mg(999), label |-> "20+ mg"]>>

timeBuckets == <<"morning", "afternoon", "evening", "night">>

\* doseBuckets.find(bucket => mg >= bucket.min && mg < bucket.max): the index of
\* the first such bucket, NoIndex for undefined.
findDoseBucket(mg) ==
    LET fits == {i \in 1..Len(doseBuckets) :
                    mg >= doseBuckets[i].min /\ mg < doseBuckets[i].max}
    IN  IF fits = {} THEN NoIndex ELSE CHOOSE i \in fits : \A j \in fits : i <= j

\* The forEach body of computeSweetSpotMatrix does not return early on log.
sweetSpotKeeps(log) ==
    /\ ~(FalsyN(Get(log, "estimatedMg")) \/ FalsyS(Get(log, "timeOfDay")))
    /\ ~NullishN(Get(log, "focusLevel"))
    /\ ~NullishN(Get(log, "anxietyLevel"))
    /\ findDoseBucket(Get(log, "estimatedMg")) # NoIndex

\* matrix[doseBucket.label][log.timeOfDay] is undefined: cell.focus throws.
sweetSpotThrows(logs) ==
    \E i \in 1..Len(logs) :
        /\ sweetSpotKeeps(logs[i])
        /\ \A t \in 1..Len(timeBuckets) : Get(logs[i], "timeOfDay") # timeBuckets[t]

\* The records pushed to the cell of dose bucket d and time bucket t.
RECURSIVE sweetSpotCellLogs(_, _, _)
sweetSpotCellLogs(logs, d, t) ==
    IF logs = <<>> THEN <<>>
    ELSE LET log == logs[1]
             here == /\ sweetSpotKeeps(log)
                     /\ findDoseBucket(Get(log, "estimatedMg")) = d
                     /\ Get(log, "timeOfDay") = timeBuckets[t]
         IN  (IF here THEN <<log>> ELSE <<>>) \o sweetSpotCellLogs(Tail(logs), d, t)

\* A faulty metric that leaves out the shift by 9 (C17).
sweetSpotMetric_Unshifted(avgFocus, avgAnxiety) ==
    RatMax(RatInt(0), RatMin(RatInt(100),
        RatMul(RatDiv(RatSub(avgFocus, avgAnxiety), RatInt(18)), RatInt(100))))

\* metric = ((avgFocus - avgAnxiety) + 9) / 18 * 100, then Math.max(0, Math.min(100, metric))
sweetSpotMetric(avgFocus, avgAnxiety) ==
    RatMax(RatInt(0), RatMin(RatInt(100),
        RatMul(RatDiv(RatAdd(RatSub(avgFocus, avgAnxiety), RatInt(9)), RatInt(18)),
               RatInt(100))))

\* One element of result.cells.
sweetSpotCell(logs, d, t) ==
    LET cell == sweetSpotCellLogs(logs, d, t)
        focus == MapField(cell, "focusLevel")
        anxiety == MapField(cell, "anxietyLevel")
        count == Len(cell)
        avgFocus == IF count > 0 THEN Rat(SumSeq(focus), Len(focus)) ELSE RatInt(0)
        avgAnxiety == IF count > 0 THEN Rat(SumSeq(anxiety), Len(anxiety)) ELSE RatInt(0)
    IN  [doseIdx |-> d, timeIdx |-> t, doseLabel |-> doseBuckets[d].label,
         avgFocus |-> avgFocus, avgAnxiety |-> avgAnxiety,
         metric |-> IF count > 0 THEN sweetSpotMetric(avgFocus, avgAnxiety) ELSE RatInt(0),
         count |-> count]

\* computeSweetSpotMatrix(logs): its cells by dose and time index, or the TypeError.
computeSweetSpotMatrix(logs) ==
    IF sweetSpotThrows(logs)
    THEN [status |-> "throw", message |-> "TypeError", cells |-> <<>>]
    ELSE [status |-> "ok", message |-> "",
          cells |-> [c \in (1..Len(doseBuckets)) \X (1..Len(timeBuckets)) |->
                        sweetSpotCell(logs, c[1], c[2])]]

\* A faulty getDailyStats whose averages divide by the number of the day's
\* records (C18).
getDailyStats_OverAll(date, logs) ==
    LET dayLogs == SelectSeq(logs, LAMBDA log : Get(log, "date") = date)
        levels(key) == SelectSeq(MapField(dayLogs, key), LAMBDA level : ~NullishN(level))
        avg(key) == IF Len(dayLogs) > 0 THEN Rat(SumSeq(levels(key)), Len(dayLogs))
                    ELSE NullRat
    IN  [date |-> date,
         totalMg |-> SumSeq([i \in 1..Len(dayLogs) |->
                        IF FalsyN(Get(dayLogs[i], "estimatedMg")) THEN 0
                        ELSE Get(dayLogs[i], "estimatedMg")]),
         eventCount |-> Len(dayLogs),
         avgFocus |-> avg("focusLevel"),
         avgAnxiety |-> avg("anxietyLevel"),
         logs |-> dayLogs]

\* getDailyStats(date, logs)
getDailyStats(date, logs) ==
    LET dayLogs == SelectSeq(logs, LAMBDA log : Get(log, "date") = date)
        levels(key) == SelectSeq(MapField(dayLogs, key), LAMBDA level : ~NullishN(level))
        avg(key) == IF Len(levels(key)) > 0
                    THEN Rat(SumSeq(levels(key)), Len(levels(key)))
                    ELSE NullRat
    IN  [date |-> date,
         totalMg |-> SumSeq([i \in 1..Len(dayLogs) |->
                        IF FalsyN(Get(dayLogs[i], "estimatedMg")) THEN 0
                        ELSE Get(dayLogs[i], "estimatedMg")]),
         eventCount |-> Len(dayLogs),
         avgFocus |-> avg("focusLevel"),
         avgAnxiety |-> avg("anxietyLevel"),
         logs |-> dayLogs]

\* -------------------------------------------------------------- sample data

\* The first instant of the local calendar day of t.
LocalDayStart(t, off) == ((t - off) \div TicksPerDay) * TicksPerDay + off

\* date.setHours(h, m): the instant of hour h on the local day of t.
SetHours(t, off, h) == LocalDayStart(t, off) + (h \div HoursPerTick)

\* One sample record; the random draws of its values are taken at their least.
SampleLog(t, off, part, hour, amount, mg, focus, anxiety) ==
    [id |-> "sample-" \o ToString(IsoDate(t)) \o "-" \o part,
     timestamp |-> SetHours(t, off, hour),
     date |-> IsoDate(t),
     timeOfDay |-> part,
     source |-> "Vape",
     unitType |-> "puffs",
     amount |-> amount,
     estimatedMg |-> Mg(mg),
     reason |-> IF part = "morning" THEN "Just woke up / habit" ELSE "Stress",
     healthEffects |-> IF part = "morning" THEN <<"Alertness", "Better focus">>
                       ELSE <<"Reduced stress">>,
     focusLevel |-> focus,
     anxietyLevel |-> anxiety,
     clearThinking |-> "true",
     notes |-> NullS]

\* The records of the day i days before t: the morning one, and the afternoon and
\* evening ones when Math.random() says so (i \in aft, i \in eve).
SampleDay(t, off, i, aft, eve) ==
    LET d == t - i * TicksPerDay
    IN  <<SampleLog(d, off, "morning", 8, 5, 2, 6, 2)>>
        \o (IF i \in aft THEN <<SampleLog(d, off, "afternoon", 14, 3, 1, 5, 3)>> ELSE <<>>)
        \o (IF i \in eve THEN <<SampleLog(d, off, "evening", 18, 2, 1, 4, 4)>> ELSE <<>>)

RECURSIVE SampleFrom(_, _, _, _, _)
SampleFrom(t, off, i, aft, eve) ==
    IF i < 0 THEN <<>>
    ELSE SampleDay(t, off, i, aft, eve) \o SampleFrom(t, off, i - 1, aft, eve)

generateSampleLogs(t, off, aft, eve) == SampleFrom(t, off, SampleDays - 1, aft, eve)

\* initializeSampleData: [status, seeded, slot].
initializeSampleData(slot, t, off, aft, eve, accept) ==
    IF loadLogsKind(slot) = "null"
    THEN [status |-> "throw", seeded |-> FALSE, slot |-> slot]
    ELSE IF loadLogsKind(slot) = "object"
    THEN [status |-> "ok", seeded |-> FALSE, slot |-> slot]
    ELSE IF Len(loadLogsFrom(slot)) = 0
    THEN IF accept
         THEN [status |-> "ok", seeded |-> TRUE,
               slot |-> saveLogs(generateSampleLogs(t, off, aft, eve))]
         ELSE [status |-> "throw", seeded |-> FALSE, slot |-> slot]
    ELSE [status |-> "ok", seeded |-> FALSE, slot |-> slot]

\* ------------------------------------------------------------------- import

\* A faulty import that reads the store when the import starts, not inside the
\* callback (C10).
importExistingLogs_AtStart(slot, entry) == entry.atStart

\* existingLogs of importData: the store as read inside reader.onload.
importExistingLogs(slot, entry) == loadLogsFrom(slot)

\* A faulty merge that keeps every record of the file (C8).
importNewLogs_Unfiltered(existingLogs, imported) == imported

\* importedData.logs.filter(log => !existingIds.has(log.id))
importNewLogs(existingLogs, imported) ==
    LET existingIds == {Get(existingLogs[i], "id") : i \in 1..Len(existingLogs)}
    IN  SelectSeq(imported, LAMBDA log : Get(log, "id") \notin existingIds)

\* A faulty onload that skips the validation: a file without a logs array counts
\* as one with no records, and its settings are applied (C9).
importOnLoad_Unvalidated(lSlot, sSlot, entry, off, acceptLogs, acceptSettings) ==
    LET file == entry.file
        imported == IF file.logs.kind = "array" THEN file.logs.val ELSE <<>>
        existingLogs == loadLogsFrom(lSlot)
        existingIds == {Get(existingLogs[i], "id") : i \in 1..Len(existingLogs)}
        newLogs == SelectSeq(imported, LAMBDA log : Get(log, "id") \notin existingIds)
    IN  [status |-> "resolve",
         message |-> "Imported " \o ToString(Len(newLogs)) \o " new log entries",
         count |-> Len(newLogs),
         logsSlot |-> Stored(JsonRoundTrip(existingLogs \o newLogs)),
         settingsSlot |->
            IF file.settings.kind = "object"
            THEN Stored(Spread(loadSettings(sSlot, off), file.settings.val))
            ELSE sSlot]

\* The body of reader.onload: [status, message, count, logsSlot, settingsSlot].
\* acceptLogs and acceptSettings are the medium's answers to the two writes.
importOnLoad(lSlot, sSlot, entry, off, acceptLogs, acceptSettings) ==
    LET file == entry.file
        rejected(msg) == [status |-> "reject", message |-> msg, count |-> 0,
                          logsSlot |-> lSlot, settingsSlot |-> sSlot]
    IN  IF file.parse = "error" THEN rejected("SyntaxError")
        ELSE IF file.parse = "null" THEN rejected("TypeError")
        ELSE IF file.logs.kind # "array"
        THEN rejected("Invalid file format: missing logs array")
        ELSE IF loadLogsKind(lSlot) # "array" THEN rejected("TypeError")
        ELSE
          LET existingLogs == importExistingLogs(lSlot, entry)
              newLogs == importNewLogs(existingLogs, file.logs.val)
              mergedLogs == existingLogs \o newLogs
          IN  IF ~acceptLogs THEN rejected("Failed to save logs")
              ELSE IF file.settings.kind = "object" /\ ~acceptSettings
              THEN [status |-> "reject", message |-> "Failed to save settings",
                    count |-> 0, logsSlot |-> saveLogs(mergedLogs),
                    settingsSlot |-> sSlot]
              ELSE [status |-> "resolve",
                    message |-> "Imported " \o ToString(Len(newLogs)) \o " new log entries",
                    count |-> Len(newLogs),
                    logsSlot |-> saveLogs(mergedLogs),
                    settingsSlot |->
                        IF file.settings.kind = "object"
                        THEN saveSettings(Spread(loadSettings(sSlot, off), file.settings.val))
                        ELSE sSlot]

\* ------------------------------------------------------------------- inputs

BlankWizard ==
    [source |-> NullS, quantity |-> NullN, strength |-> NullN, healthEffects |-> <<>>,
     reason |-> NullS, otherReason |-> NullS]

\* The wizard's data once steps 1 to 3 are filled in and valid.
FilledWizard(source, quantity, strength, effects, reason) ==
    [source |-> source, quantity |-> quantity, strength |-> strength,
     estimatedMg |-> calculateEstimatedMg(source, quantity, strength),
     healthEffects |-> effects, reason |-> reason, otherReason |-> NullS]

WizardInputs == {FilledWizard("Cigarettes", 3, 2, <<"Alertness">>, "Stress")}

\* What the check-in form holds at submit: the two sliders, the buttons, the notes.
CheckInInputs ==
    {[focusLevel |-> 8, anxietyLevel |-> 2, clearThinking |-> "true", notes |-> "calm"],
     [focusLevel |-> 3, anxietyLevel |-> 7, clearThinking |-> NullS, notes |-> NullS]}

\* The argument of a direct addLog call: it carries an id and a timestamp of its
\* own, and a key holding undefined.
AddInputs(t) ==
    {[id |-> "forged", timestamp |-> 0, date |-> IsoDate(t), source |-> "Snus",
      amount |-> 1, estimatedMg |-> UndefN, notes |-> NullS]}

\* The updates of a direct updateLog call.
UpdateInputs == {[notes |-> "amended", amount |-> 2]}

\* The updates of a direct updateLog call that name the id among the fields.
RenameInputs == {[id |-> "renamed"]}

UpdateIds(logs) == {Get(logs[i], "id") : i \in 1..Len(logs)} \cup {"no-such-id"}

\* A record of an import file, as another device's export holds it.
FileLog(id, t) ==
    [id |-> id, timestamp |-> t, date |-> IsoDate(t), timeOfDay |-> "morning",
     source |-> "Snus", unitType |-> "pieces", amount |-> 1, estimatedMg |-> Mg(1),
     reason |-> "Stress", healthEffects |-> <<>>, focusLevel |-> NullN,
     anxietyLevel |-> NullN, clearThinking |-> NullS, notes |-> "imported"]

NoPart == [kind |-> "missing", val |-> <<>>]

\* The files offered to the import: not JSON; an object with no
\* logs; one whose logs is no array; an export sharing the id of the first day's
\* morning sample and bringing one new record; a file holding one id twice.
ImportFiles ==
    {[parse |-> "error", logs |-> NoPart, settings |-> NoPart],
     [parse |-> "object", logs |-> NoPart,
      settings |-> [kind |-> "object", val |-> [dailyMgLimit |-> 60]]],
     [parse |-> "object", logs |-> [kind |-> "notArray", val |-> <<>>],
      settings |-> [kind |-> "object", val |-> [dailyMgLimit |-> 60]]],
     [parse |-> "object",
      logs |-> [kind |-> "array",
                val |-> <<FileLog("sample-" \o ToString(IsoDate(StartTick)) \o "-morning",
                                  StartTick),
                          FileLog("other-device", StartTick + 1)>>],
      settings |-> [kind |-> "object", val |-> [dailyMgLimit |-> 50]]],
     [parse |-> "object",
      logs |-> [kind |-> "array",
                val |-> <<FileLog("twice", StartTick + 1), FileLog("twice", StartTick + 2)>>],
      settings |-> [kind |-> "object", val |-> [dailyMgLimit |-> 0]]]}

FileLogCount(file) == IF file.logs.kind = "array" THEN Len(file.logs.val) ELSE 0

\* -------------------------------------------------------------- the last call

NoCall ==
    [op |-> "none", status |-> "ok", message |-> "", toast |-> "none", id |-> "",
     arg |-> <<>>, value |-> <<>>, found |-> FALSE, count |-> 0, atStart |-> <<>>,
     kind |-> "none"]

Call(op, status, message, toast) ==
    [NoCall EXCEPT !.op = op, !.status = status, !.message = message, !.toast = toast]

\* --------------------------------------------------------------------- Init

TzOffsets == {0}

Init ==
    /\ logsSlot = Absent
    /\ settingsSlot = Absent
    /\ now = StartTick
    /\ tzOffset \in TzOffsets
    /\ appReady = FALSE
    /\ currentWizardStep = 1
    /\ wizardData = BlankWizard
    /\ wizardOpen = FALSE
    /\ buttonsDisabled = FALSE
    /\ pending = <<>>
    /\ last = NoCall

\* ------------------------------------------------------------------ actions

\* Time passes. The clock starts at the first page load.
\* getTimezoneOffset() of browsers east of, at and west of Greenwich, in ticks.
DateOffsets == {0 - 1, 0, 1}

\* The program before the page loads, in any of these time zones.
InitDates ==
    /\ logsSlot = Absent
    /\ settingsSlot = Absent
    /\ now = StartTick
    /\ tzOffset \in DateOffsets
    /\ appReady = FALSE
    /\ currentWizardStep = 1
    /\ wizardData = BlankWizard
    /\ wizardOpen = FALSE
    /\ buttonsDisabled = FALSE
    /\ pending = <<>>
    /\ last = NoCall

Tick ==
    /\ appReady
    /\ now < StartTick + MaxTicks
    /\ now' = now + 1
    /\ last' = Call("tick", "ok", "", "none")
    /\ UNCHANGED <<logsSlot, settingsSlot, tzOffset, appReady, currentWizardStep,
                   wizardData, wizardOpen, buttonsDisabled, pending>>

\* The page loads (or reloads): the globals are fresh, the reads in flight are gone,
\* initApp seeds an empty store and attaches the listeners. A rejected seeding write
\* leaves initApp before setupEventListeners.
InitApp(aft, eve, accept) ==
    LET res == initializeSampleData(logsSlot, now, tzOffset, aft, eve, accept)
    IN  /\ logsSlot' = res.slot
        /\ appReady' = (res.status = "ok")
        /\ currentWizardStep' = 1
        /\ wizardData' = BlankWizard
        /\ wizardOpen' = FALSE
        /\ buttonsDisabled' = buttonsDisabled
        /\ pending' = <<>>
        /\ last' = [Call("initApp", res.status, "", "none") EXCEPT !.found = res.seeded]
        /\ UNCHANGED <<settingsSlot, now, tzOffset>>

\* addLog(logData), called directly.
AddLogCall(logData, rnd, accept) ==
    LET res == addLog(logsSlot, logData, now, rnd, accept)
    IN  /\ appReady
        /\ Len(loadLogs) < MaxLogs
        /\ logsSlot' = res.slot
        /\ last' = [Call("addLog", res.status, res.message, "none")
                        EXCEPT !.arg = logData, !.value = res.value]
        /\ UNCHANGED <<settingsSlot, now, tzOffset, appReady, currentWizardStep,
                       wizardData, wizardOpen, buttonsDisabled, pending>>

\* updateLog(logId, updates), called directly.
UpdateLogCall(logId, updates, accept) ==
    LET res == updateLog(logsSlot, logId, updates, accept)
    IN  /\ appReady
        /\ logsSlot' = res.slot
        /\ last' = [Call("updateLog", res.status, res.message, "none")
                        EXCEPT !.id = logId, !.arg = updates, !.value = res.value]
        /\ UNCHANGED <<settingsSlot, now, tzOffset, appReady, currentWizardStep,
                       wizardData, wizardOpen, buttonsDisabled, pending>>

\* getMostRecentLogToday(), called directly.
GetMostRecentLogTodayCall ==
    LET results == getMostRecentLogToday(loadLogs, now)
    IN  /\ appReady
        /\ IF loadLogsKind(logsSlot) # "array"
           THEN last' = Call("getMostRecentLogToday", "throw", "TypeError", "none")
           ELSE IF results = {}
           THEN last' = Call("getMostRecentLogToday", "ok", "", "none")
           ELSE \E r \in results :
                    last' = [Call("getMostRecentLogToday", "ok", "", "none")
                                EXCEPT !.found = TRUE, !.value = r]
        /\ UNCHANGED <<logsSlot, settingsSlot, now, tzOffset, appReady,
                       currentWizardStep, wizardData, wizardOpen, buttonsDisabled, pending>>

\* loadLogs(), called directly.
LoadLogsCall ==
    /\ appReady
    /\ last' = [Call("loadLogs", "ok", "", "none")
                    EXCEPT !.kind = loadLogsKind(logsSlot), !.value = loadLogs]
    /\ UNCHANGED <<logsSlot, settingsSlot, now, tzOffset, appReady, currentWizardStep,
                   wizardData, wizardOpen, buttonsDisabled, pending>>

\* Something other than saveLogs (another script of the origin, the browser's
\* storage inspector, a truncated write) leaves a text in the logs slot.
CorruptLogs(text) ==
    /\ logsSlot' = Corrupt(text)
    /\ last' = Call("corrupt", "ok", "", "none")
    /\ UNCHANGED <<settingsSlot, now, tzOffset, appReady, currentWizardStep,
                   wizardData, wizardOpen, buttonsDisabled, pending>>

\* The arguments calculateEstimatedMg is tried on: the three sources, another one
\* and null; null, zero, negative and positive quantities and strengths.
EstimateSources == {"Vape", "Cigarettes", "Snus", "None", NullS}
EstimateQuantities == {NullN, 0, 0 - 3, 1, 3, 4, 200}
EstimateStrengths == {NullN, 0, 0 - 4, 3, 2 * StrengthScale, 10 * StrengthScale}

\* calculateEstimatedMg(source, quantity, strength), called directly.
EstimateCall(source, quantity, strength) ==
    /\ last' = [Call("calculateEstimatedMg", "ok", "", "none")
                    EXCEPT !.arg = <<source, quantity, strength>>,
                           !.value = [mg |-> calculateEstimatedMg(source, quantity, strength)]]
    /\ UNCHANGED <<logsSlot, settingsSlot, now, tzOffset, appReady, currentWizardStep,
                   wizardData, wizardOpen, buttonsDisabled, pending>>

\* A record of the day d, as an earlier day's use left it.
DayLog(d) == FileLog("day-" \o ToString(d), d * TicksPerDay)

\* One record for each day of days up to d, in the order of the days.
RECURSIVE DayLogs(_, _)
DayLogs(days, d) ==
    IF d < 0 THEN <<>>
    ELSE DayLogs(days, d - 1) \o (IF d \in days THEN <<DayLog(d)>> ELSE <<>>)

\* The time zones the streak is computed in: UTC, a zone without daylight saving,
\* and zones whose daylight saving ended or began on the day before the last one.
StreakZones ==
    LET change == (StreakDays - 1) * HoursPerDay
    IN  {[before |-> 0, after |-> 0, change |-> 0],
         [before |-> 9, after |-> 9, change |-> 0],
         [before |-> 2, after |-> 1, change |-> change + 1],
         [before |-> 1, after |-> 2, change |-> change + 1],
         [before |-> 0 - 4, after |-> 0 - 5, change |-> change + 6]}

\* The stores and the instants calculateStreak is tried on: the page is loaded,
\* the store holds records of some days, today is one of the last two days.
InitStreak ==
    /\ \E days \in SUBSET (0..StreakDays) :
          /\ Cardinality(days) <= MaxLogs
          /\ logsSlot = IF days = {} THEN Absent ELSE saveLogs(DayLogs(days, StreakDays))
    /\ settingsSlot = Absent
    /\ now \in {d * TicksPerDay : d \in (StreakDays - 1)..StreakDays}
    /\ tzOffset \in TzOffsets
    /\ appReady = TRUE
    /\ currentWizardStep = 1
    /\ wizardData = BlankWizard
    /\ wizardOpen = FALSE
    /\ buttonsDisabled = FALSE
    /\ pending = <<>>
    /\ last = NoCall

\* calculateStreak(), called by updateDashboard, in the browser's time zone.
StreakCall(zone) ==
    /\ appReady
    /\ last' = [Call("calculateStreak", "ok", "", "none")
                    EXCEPT !.arg = zone,
                           !.value = [streak |-> calculateStreak(loadLogs, now, zone)]]
    /\ UNCHANGED <<logsSlot, settingsSlot, now, tzOffset, appReady, currentWizardStep,
                   wizardData, wizardOpen, buttonsDisabled, pending>>

\* A stored record with the fields the charts read.
ChartLog(n, mg, time, focus, anxiety, d) ==
    [FileLog("log-" \o ToString(n), d * TicksPerDay)
        EXCEPT !.estimatedMg = mg, !.timeOfDay = time, !.focusLevel = focus,
               !.anxietyLevel = anxiety]

\* The records the charts are tried on: two of one cell, doses at and just under
\* a bucket's bound, a zero, a null and a negative dose, a missing level, a dose of
\* 25 and one of 1000 mg, a time of day outside the four and a missing one.
ChartLogs ==
    <<ChartLog(1, Mg(7), "evening", 8, 2, 1),
      ChartLog(2, Mg(7), "evening", 3, 9, 1),
      ChartLog(3, Mg(5), "morning", 10, 1, 1),
      ChartLog(4, Mg(5) - 1, "morning", 1, 10, 0),
      ChartLog(5, 0, "evening", 5, 5, 1),
      ChartLog(6, NullN, "evening", 7, 3, 1),
      ChartLog(7, 0 - Mg(3), "evening", 5, 5, 0),
      ChartLog(8, Mg(20), "night", 6, NullN, 1),
      ChartLog(9, Mg(20), "night", NullN, 4, 0),
      ChartLog(10, Mg(25), "afternoon", 6, 4, 1),
      ChartLog(11, Mg(1000), "evening", 8, 2, 1),
      ChartLog(12, Mg(12), "dawn", 8, 2, 0),
      ChartLog(13, Mg(15), NullS, 5, 5, 0)>>

\* The dates getDailyStats is asked for: the two days of ChartLogs and a day
\* without records.
ChartDates == 0..2

\* The stores the charts are tried on: up to MaxChartLogs of ChartLogs, in any order.
InitCharts ==
    /\ \E n \in 0..MaxChartLogs :
         \E pick \in [1..n -> 1..Len(ChartLogs)] :
            /\ \A i, j \in 1..n : pick[i] = pick[j] => i = j
            /\ logsSlot = IF n = 0 THEN Absent
                          ELSE saveLogs([i \in 1..n |-> ChartLogs[pick[i]]])
    /\ settingsSlot = Absent
    /\ now = StartTick
    /\ tzOffset \in TzOffsets
    /\ appReady = TRUE
    /\ currentWizardStep = 1
    /\ wizardData = BlankWizard
    /\ wizardOpen = FALSE
    /\ buttonsDisabled = FALSE
    /\ pending = <<>>
    /\ last = NoCall

\* computeSweetSpotMatrix(logs), called by renderSweetSpotHeatmap.
SweetSpotCall ==
    /\ appReady
    /\ LET result == computeSweetSpotMatrix(loadLogs)
       IN  last' = [Call("computeSweetSpotMatrix", result.status, result.message, "none")
                        EXCEPT !.value = result.cells]
    /\ UNCHANGED <<logsSlot, settingsSlot, now, tzOffset, appReady, currentWizardStep,
                   wizardData, wizardOpen, buttonsDisabled, pending>>

\* getDailyStats(date, logs)
DailyStatsCall(date) ==
    /\ appReady
    /\ last' = [Call("getDailyStats", "ok", "", "none")
                    EXCEPT !.arg = date, !.value = getDailyStats(date, loadLogs)]
    /\ UNCHANGED <<logsSlot, settingsSlot, now, tzOffset, appReady, currentWizardStep,
                   wizardData, wizardOpen, buttonsDisabled, pending>>

\* What the user may leave in the daily mg limit's field: nothing, 0, -5, 25, abc,
\* and in the event limit's field: nothing, 3.
MgLimitTexts == {<<>>, <<"0">>, <<"-", "5">>, <<"2", "5">>, <<"a", "b", "c">>}
EventLimitTexts == {<<>>, <<"3">>}

\* saveSettingsFromUI(): the click on saveSettingsBtn.
SaveSettingsFromUI(mgText, eventText, accept) ==
    /\ appReady
    /\ IF accept
       THEN /\ settingsSlot' = saveSettings(settingsFromUI(mgText, eventText, tzOffset))
            /\ last' = [Call("saveSettings", "ok", "", "success")
                            EXCEPT !.arg = <<mgText, eventText>>]
       ELSE /\ settingsSlot' = settingsSlot
            /\ last' = [Call("saveSettings", "throw", "Failed to save settings", "none")
                            EXCEPT !.arg = <<mgText, eventText>>]
    /\ UNCHANGED <<logsSlot, now, tzOffset, appReady, currentWizardStep, wizardData,
                   wizardOpen, buttonsDisabled, pending>>

\* wizardData as openWizard resets it.
OpenedWizard ==
    [source |-> NullS, quantity |-> NullN, strength |-> 0, healthEffects |-> <<>>,
     reason |-> NullS, otherReason |-> NullS]

\* A faulty validateWizardStep whose step 1 does not ask for a positive quantity (C20).
validateWizardStep_AnyQuantity(step, wd) ==
    CASE step = 1 -> wd.source # NullS /\ wd.quantity # NullN /\ wd.strength > 0
      [] step = 2 -> Len(wd.healthEffects) > 0
      [] step = 3 -> wd.reason # NullS /\ (wd.reason # "Other" \/ ~FalsyS(wd.otherReason))
      [] OTHER -> step = 4

\* A faulty validateWizardStep that finds every step valid (C24).
validateWizardStep_Always(step, wd) == step \in 1..4

\* isValid of validateWizardStep(step): the two buttons' disabled is set to its
\* negation.
validateWizardStep(step, wd) ==
    CASE step = 1 -> /\ wd.source # NullS
                     /\ wd.quantity # NullN
                     /\ wd.quantity > 0
                     /\ wd.strength > 0
      [] step = 2 -> Len(wd.healthEffects) > 0
      [] step = 3 -> wd.reason # NullS /\ (wd.reason # "Other" \/ ~FalsyS(wd.otherReason))
      [] OTHER -> step = 4

\* updateEstimatedMg(): wizardData afterwards.
updateEstimatedMg(wd) ==
    IF FalsyS(wd.source) \/ FalsyN(wd.quantity) \/ FalsyN(wd.strength) THEN wd
    ELSE Spread(wd, [estimatedMg |-> calculateEstimatedMg(wd.source, wd.quantity, wd.strength)])

\* The values of the source radios, the texts typed in the quantity field, the
\* slider's positions (in 1/StrengthScale mg), the effect checkboxes, the reason
\* radios and the texts typed in the other-reason field.
SourceValues == {"Vape", "Cigarettes", "Snus"}
QuantityTexts == {<<>>, <<"0">>, <<"-", "2">>, <<"3">>}
SliderValues == {0, 2 * StrengthScale}
EffectValues == {"Alertness"}
ReasonValues == {"Stress", "Other"}
OtherReasonTexts == {"", "party"}

\* The page is loaded over a store of earlier days' records with room for one more.
InitWizard ==
    /\ logsSlot = saveLogs(DayLogs(0..(MaxLogs - 2), MaxLogs - 2))
    /\ settingsSlot = Absent
    /\ now = MaxLogs * TicksPerDay
    /\ tzOffset \in TzOffsets
    /\ appReady = TRUE
    /\ currentWizardStep = 1
    /\ wizardData = BlankWizard
    /\ wizardOpen = FALSE
    /\ buttonsDisabled = FALSE
    /\ pending = <<>>
    /\ last = NoCall

\* The click on logIntakeBtn: openWizard().
OpenWizard ==
    /\ appReady
    /\ ~wizardOpen
    /\ currentWizardStep' = 1
    /\ wizardData' = OpenedWizard
    /\ buttonsDisabled' = ~validateWizardStep(1, OpenedWizard)
    /\ wizardOpen' = TRUE
    /\ last' = Call("openWizard", "ok", "", "none")
    /\ UNCHANGED <<logsSlot, settingsSlot, now, tzOffset, appReady, pending>>

\* The click on closeWizard: the modal is hidden.
CloseWizard ==
    /\ appReady
    /\ wizardOpen
    /\ wizardOpen' = FALSE
    /\ last' = Call("closeWizard", "ok", "", "none")
    /\ UNCHANGED <<logsSlot, settingsSlot, now, tzOffset, appReady, currentWizardStep,
                   wizardData, buttonsDisabled, pending>>

\* An input listener has set wizardData to wd and called validateWizardStep(step).
WizardInput(op, wd, step) ==
    /\ wizardData' = wd
    /\ buttonsDisabled' = ~validateWizardStep(step, wd)
    /\ last' = Call(op, "ok", "", "none")
    /\ UNCHANGED <<logsSlot, settingsSlot, now, tzOffset, appReady, currentWizardStep,
                   wizardOpen, pending>>

\* change of a source radio, shown while step 1 is active.
SelectSource(source) ==
    /\ appReady /\ wizardOpen /\ currentWizardStep = 1
    /\ WizardInput("source", [wizardData EXCEPT !.source = source], 1)

\* input of the quantity field, shown at step 1 once a source is chosen.
InputQuantity(text) ==
    /\ appReady /\ wizardOpen /\ currentWizardStep = 1
    /\ wizardData.source # NullS
    /\ WizardInput("quantity",
           updateEstimatedMg([wizardData EXCEPT !.quantity =
               IF parseInt(text) \in {NaN, 0} THEN NullN ELSE parseInt(text)]), 1)

\* input of the strength slider, shown at step 1 once a source is chosen.
InputStrength(value) ==
    /\ appReady /\ wizardOpen /\ currentWizardStep = 1
    /\ wizardData.source # NullS
    /\ WizardInput("strength", updateEstimatedMg([wizardData EXCEPT !.strength = value]), 1)

\* change of a health-effect checkbox, shown while step 2 is active: checked when
\* the effect was not in the list, unchecked when it was.
ToggleEffect(effect) ==
    /\ appReady /\ wizardOpen /\ currentWizardStep = 2
    /\ LET listed == \E i \in 1..Len(wizardData.healthEffects) :
                        wizardData.healthEffects[i] = effect
       IN  WizardInput("healthEffects",
               [wizardData EXCEPT !.healthEffects =
                   IF listed THEN SelectSeq(@, LAMBDA v : v # effect)
                   ELSE Append(@, effect)], 2)

\* change of a reason radio, shown while step 3 is active.
SelectReason(reason) ==
    /\ appReady /\ wizardOpen /\ currentWizardStep = 3
    /\ WizardInput("reason",
           [wizardData EXCEPT !.reason = reason,
                              !.otherReason = IF reason = "Other" THEN @ ELSE NullS], 3)

\* input of the other-reason field, shown at step 3 while the reason is Other.
InputOtherReason(text) ==
    /\ appReady /\ wizardOpen /\ currentWizardStep = 3
    /\ wizardData.reason = "Other"
    /\ WizardInput("otherReason", [wizardData EXCEPT !.otherReason = text], 3)

\* showWizardStep(step): the step shown and the buttons' state afterwards.
ShowWizardStep(op, step) ==
    /\ currentWizardStep' = step
    /\ buttonsDisabled' = ~validateWizardStep(step, wizardData)
    /\ last' = Call(op, "ok", "", "none")
    /\ UNCHANGED <<logsSlot, settingsSlot, now, tzOffset, appReady, wizardData,
                   wizardOpen, pending>>

\* The click on wizardNext, shown at the steps 1 to 3: nextWizardStep().
NextWizardStep ==
    /\ appReady /\ wizardOpen /\ currentWizardStep < 4
    /\ IF validateWizardStep(currentWizardStep, wizardData)
       THEN ShowWizardStep("nextWizardStep", currentWizardStep + 1)
       ELSE /\ buttonsDisabled' = TRUE
            /\ last' = Call("nextWizardStep", "ok", "", "none")
            /\ UNCHANGED <<logsSlot, settingsSlot, now, tzOffset, appReady,
                           currentWizardStep, wizardData, wizardOpen, pending>>

\* The click on wizardPrev, shown at the steps 2 to 4: prevWizardStep().
PrevWizardStep ==
    /\ appReady /\ wizardOpen /\ currentWizardStep > 1
    /\ ShowWizardStep("prevWizardStep", currentWizardStep - 1)

\* The user opens the wizard and fills in steps 1 to 3 (openWizard, the input
\* listeners, nextWizardStep three times): the wizard stands at step 4 with wd.
FillWizard(wd) ==
    /\ appReady
    /\ ~wizardOpen
    /\ currentWizardStep' = 4
    /\ wizardData' = wd
    /\ wizardOpen' = TRUE
    /\ buttonsDisabled' = FALSE
    /\ last' = Call("wizard", "ok", "", "none")
    /\ UNCHANGED <<logsSlot, settingsSlot, now, tzOffset, appReady, pending>>

\* logData of confirmWizard.
confirmLogData(wd, t, off) ==
    [date |-> IsoDate(t),
     timeOfDay |-> getTimeOfDay(t, off),
     source |-> wd.source,
     unitType |-> IF wd.source = "Vape" THEN "puffs" ELSE "pieces",
     amount |-> wd.quantity,
     estimatedMg |-> Get(wd, "estimatedMg"),
     reason |-> IF wd.reason = "Other" THEN wd.otherReason ELSE wd.reason,
     healthEffects |-> wd.healthEffects,
     focusLevel |-> NullN,
     anxietyLevel |-> NullN,
     clearThinking |-> NullS,
     notes |-> NullS]

\* The click on wizardConfirm, shown at step 4 and not disabled.
ConfirmWizard(rnd, accept) ==
    LET logData == confirmLogData(wizardData, now, tzOffset)
        res == addLog(logsSlot, logData, now, rnd, accept)
    IN  /\ appReady
        /\ wizardOpen
        /\ currentWizardStep = 4
        /\ ~buttonsDisabled
        /\ Len(loadLogs) < MaxLogs
        /\ logsSlot' = res.slot
        /\ wizardOpen' = (res.status # "ok")
        /\ buttonsDisabled' = buttonsDisabled
        /\ last' = [Call("confirmWizard", res.status, res.message,
                         IF res.status = "ok" THEN "success" ELSE "none")
                        EXCEPT !.arg = logData, !.value = res.value]
        /\ UNCHANGED <<settingsSlot, now, tzOffset, appReady, currentWizardStep,
                       wizardData, pending>>

\* The check-in-only record of submitCognitiveCheckIn.
checkInOnlyData(form, t, off) ==
    [date |-> IsoDate(t),
     timeOfDay |-> getTimeOfDay(t, off),
     source |-> "None",
     unitType |-> "other",
     amount |-> 0,
     estimatedMg |-> 0,
     reason |-> "Cognitive check-in only",
     healthEffects |-> <<>>,
     focusLevel |-> form.focusLevel,
     anxietyLevel |-> form.anxietyLevel,
     clearThinking |-> form.clearThinking,
     notes |-> form.notes]

\* The click on submitCognitiveBtn.
SubmitCognitiveCheckIn(form, rnd, accept) ==
    LET results == getMostRecentLogToday(loadLogs, now)
    IN  /\ appReady
        /\ IF loadLogsKind(logsSlot) # "array"
           THEN /\ logsSlot' = logsSlot
                /\ last' = Call("checkIn", "throw", "TypeError", "none")
           ELSE IF results # {}
           THEN \E recentLog \in results :
                    LET res == updateLog(logsSlot, Get(recentLog, "id"), form, accept)
                    IN  /\ logsSlot' = res.slot
                        /\ last' = [Call("checkIn", res.status, res.message,
                                         IF res.status = "ok" THEN "success" ELSE "none")
                                        EXCEPT !.found = TRUE, !.arg = form,
                                               !.id = Get(recentLog, "id"),
                                               !.value = recentLog]
           ELSE LET res == addLog(logsSlot, checkInOnlyData(form, now, tzOffset),
                                  now, rnd, accept)
                IN  /\ Len(loadLogs) < MaxLogs
                    /\ logsSlot' = res.slot
                    /\ last' = [Call("checkIn", res.status, res.message,
                                     IF res.status = "ok" THEN "success" ELSE "none")
                                    EXCEPT !.arg = form, !.value = res.value]
        /\ UNCHANGED <<settingsSlot, now, tzOffset, appReady, currentWizardStep,
                       wizardData, wizardOpen, buttonsDisabled, pending>>

\* The change event of importDataBtn: importData(file) starts reading the file.
ImportData(file) ==
    /\ appReady
    /\ Len(pending) < MaxPending
    /\ pending' = Append(pending, [file |-> file, atStart |-> loadLogs])
    /\ last' = Call("importData", "ok", "", "none")
    /\ UNCHANGED <<logsSlot, settingsSlot, now, tzOffset, appReady, currentWizardStep,
                   wizardData, wizardOpen, buttonsDisabled>>

Remove(seq, i) == SubSeq(seq, 1, i - 1) \o SubSeq(seq, i + 1, Len(seq))

\* reader.onload of the i-th read in flight, and the promise's then or catch.
ReaderOnLoad(i, acceptLogs, acceptSettings) ==
    /\ i \in 1..Len(pending)
    /\ Len(loadLogs) + FileLogCount(pending[i].file) <= MaxLogs
    /\ LET entry == pending[i]
           res == importOnLoad(logsSlot, settingsSlot, entry, tzOffset,
                               acceptLogs, acceptSettings)
       IN  /\ logsSlot' = res.logsSlot
           /\ settingsSlot' = res.settingsSlot
           /\ last' = [Call("import", res.status, res.message,
                            IF res.status = "resolve" THEN "success" ELSE "error")
                           EXCEPT !.arg = entry.file, !.count = res.count,
                                  !.atStart = entry.atStart]
    /\ pending' = Remove(pending, i)
    /\ UNCHANGED <<now, tzOffset, appReady, currentWizardStep, wizardData, wizardOpen,
                   buttonsDisabled>>

\* reader.onerror of the i-th read in flight.
ReaderOnError(i) ==
    /\ i \in 1..Len(pending)
    /\ pending' = Remove(pending, i)
    /\ last' = [Call("import", "reject", "Failed to read file", "error")
                    EXCEPT !.arg = pending[i].file, !.atStart = pending[i].atStart]
    /\ UNCHANGED <<logsSlot, settingsSlot, now, tzOffset, appReady, currentWizardStep,
                   wizardData, wizardOpen, buttonsDisabled>>

SampleChoices == SUBSET (0..(SampleDays - 1))

Rands == 0..(MaxRand - 1)

\* The page load and the clock.
EnvNext ==
    \/ Tick
    \/ \E aft \in SampleChoices, eve \in SampleChoices, accept \in BOOLEAN :
            InitApp(aft, eve, accept)

\* The log store's operations, called directly.
StoreNext ==
    \/ \E logData \in AddInputs(now), rnd \in Rands, accept \in BOOLEAN :
            AddLogCall(logData, rnd, accept)
    \/ \E logId \in UpdateIds(loadLogs), updates \in UpdateInputs, accept \in BOOLEAN :
            UpdateLogCall(logId, updates, accept)
    \/ GetMostRecentLogTodayCall

WizardNext ==
    \/ \E wd \in WizardInputs : FillWizard(wd)
    \/ \E rnd \in Rands, accept \in BOOLEAN : ConfirmWizard(rnd, accept)

\* The wizard, event by event.
WizardStepsNext ==
    \/ OpenWizard
    \/ CloseWizard
    \/ \E source \in SourceValues : SelectSource(source)
    \/ \E text \in QuantityTexts : InputQuantity(text)
    \/ \E value \in SliderValues : InputStrength(value)
    \/ \E effect \in EffectValues : ToggleEffect(effect)
    \/ \E reason \in ReasonValues : SelectReason(reason)
    \/ \E text \in OtherReasonTexts : InputOtherReason(text)
    \/ NextWizardStep
    \/ PrevWizardStep
    \/ \E rnd \in Rands, accept \in BOOLEAN : ConfirmWizard(rnd, accept)

CheckInNext ==
    \E form \in CheckInInputs, rnd \in Rands, accept \in BOOLEAN :
        SubmitCognitiveCheckIn(form, rnd, accept)

ImportNext ==
    \/ \E file \in ImportFiles : ImportData(file)
    \/ \E i \in 1..MaxPending, acceptLogs \in BOOLEAN, acceptSettings \in BOOLEAN :
            ReaderOnLoad(i, acceptLogs, acceptSettings)
    \/ \E i \in 1..MaxPending : ReaderOnError(i)

\* The page is loaded over a store that holds one record of today.
InitGrowth ==
    /\ logsSlot = saveLogs(<<DayLog(IsoDate(StartTick))>>)
    /\ settingsSlot = Absent
    /\ now = StartTick
    /\ tzOffset \in TzOffsets
    /\ appReady = TRUE
    /\ currentWizardStep = 1
    /\ wizardData = BlankWizard
    /\ wizardOpen = FALSE
    /\ buttonsDisabled = FALSE
    /\ pending = <<>>
    /\ last = NoCall

\* The check-in form tried together with the other writers.
GrowthCheckIns == {form \in CheckInInputs : form.notes # NullS}

\* The import files whose logs are an array.
GrowthFiles == {file \in ImportFiles : file.logs.kind = "array"}

\* Every operation that writes the logs, the medium accepting every write: the
\* page load over the store (never empty here, so no samples are drawn), the direct
\* calls, with updates that name the id, the check-in and the import.
GrowthNext ==
    \/ InitApp({}, {}, TRUE)
    \/ \E logData \in AddInputs(now), rnd \in Rands : AddLogCall(logData, rnd, TRUE)
    \/ \E logId \in UpdateIds(loadLogs), updates \in RenameInputs :
            UpdateLogCall(logId, updates, TRUE)
    \/ \E form \in GrowthCheckIns, rnd \in Rands : SubmitCognitiveCheckIn(form, rnd, TRUE)
    \/ \E file \in GrowthFiles : ImportData(file)
    \/ \E i \in 1..MaxPending : ReaderOnLoad(i, TRUE, TRUE)

SettingsNext ==
    \E mgText \in MgLimitTexts, eventText \in EventLimitTexts, accept \in BOOLEAN :
        SaveSettingsFromUI(mgText, eventText, accept)

\* The logs slot written from outside, and the store read.
CorruptNext ==
    \/ \E text \in CorruptTexts : CorruptLogs(text)
    \/ LoadLogsCall

StreakNext == \E zone \in StreakZones : StreakCall(zone)

ChartsNext ==
    \/ SweetSpotCall
    \/ \E date \in ChartDates : DailyStatsCall(date)

EstimateNext ==
    \E source \in EstimateSources, quantity \in EstimateQuantities,
       strength \in EstimateStrengths : EstimateCall(source, quantity, strength)

Next ==
    \/ EnvNext \/ StoreNext \/ WizardNext \/ CheckInNext \/ ImportNext \/ CorruptNext
    \/ EstimateNext \/ StreakNext \/ ChartsNext \/ SettingsNext \/ WizardStepsNext

\* The whole program.
Spec == Init /\ [][Next]_vars

\* The log store under direct calls.
SpecStore == Init /\ [][EnvNext \/ StoreNext]_vars

\* The wizard's confirm and the check-in.
SpecCheckIn == Init /\ [][EnvNext \/ WizardNext \/ CheckInNext]_vars

\* The import and the check-in.
SpecImport == Init /\ [][EnvNext \/ CheckInNext \/ ImportNext]_vars

\* The wizard's confirm, the check-in and the most recent record of today, in
\* browsers of several time zones.
SpecDates == InitDates /\ [][EnvNext \/ WizardNext \/ CheckInNext \/ GetMostRecentLogTodayCall]_vars

\* The operations that write the logs, in any order.
SpecGrowth == InitGrowth /\ [][GrowthNext]_vars

\* The wizard under every sequence of its events.
SpecWizard == InitWizard /\ [][WizardStepsNext]_vars

\* The settings under saves from the settings form and imports.
SpecSettings == Init /\ [][EnvNext \/ SettingsNext \/ ImportNext]_vars

\* The log store over a slot that may be written from outside.
SpecCorrupt == Init /\ [][EnvNext \/ StoreNext \/ CorruptNext]_vars

\* calculateStreak over stores of several days.
SpecStreak == InitStreak /\ [][StreakNext]_vars

\* The charts' aggregations over stores of assorted records.
SpecCharts == InitCharts /\ [][ChartsNext]_vars

\* calculateEstimatedMg over its arguments.
SpecEstimate == Init /\ [][EstimateNext]_vars

\* ------------------------------------------------------------------- claims

Ids(logs) == {Get(logs[i], "id") : i \in 1..Len(logs)}

IsPrefix(a, b) == Len(a) <= Len(b) /\ \A i \in 1..Len(a) : b[i] = a[i]

\* The first position of an id in a collection.
IsFirstWithId(logs, i, id) ==
    /\ i \in 1..Len(logs)
    /\ Get(logs[i], "id") = id
    /\ \A j \in 1..(i - 1) : Get(logs[j], "id") # id

\* A record of today's date of the greatest timestamp among them.
IsMostRecentToday(logs, i, t) ==
    /\ i \in 1..Len(logs)
    /\ Get(logs[i], "date") = IsoDate(t)
    /\ \A j \in 1..Len(logs) :
          Get(logs[j], "date") = IsoDate(t)
              => Get(logs[i], "timestamp") >= Get(logs[j], "timestamp")

CognitiveFields == {"focusLevel", "anxietyLevel", "clearThinking", "notes"}

\* C1: no two stored records have the same id, in every reachable state.
C1_IdUnique ==
    \A i, j \in 1..Len(loadLogs) :
        i # j => Get(loadLogs[i], "id") # Get(loadLogs[j], "id")

\* C2: after a successful addLog(r) the store is the old store followed by exactly
\* one record; that record is the one returned, carries every field of r other
\* than id and timestamp, has a generated id, not r's, that no old record has,
\* and a timestamp no earlier than the call.
C2_AppendRoundTrip ==
    [][(last'.op = "addLog" /\ last'.status = "ok") =>
        LET old == loadLogs
            new == loadLogs'
            added == new[Len(new)]
            r == last'.arg
        IN  /\ Len(new) = Len(old) + 1
            /\ IsPrefix(old, new)
            /\ SameRecord(added, last'.value)
            /\ \A k \in (DOMAIN r) \ {"id", "timestamp"} : Get(added, k) = r[k]
            /\ "id" \in DOMAIN r => Get(added, "id") # r.id
            /\ Get(added, "id") \notin Ids(old)
            /\ Get(added, "timestamp") >= now
      ]_vars

\* C3: updateLog with an id no stored record has throws "Log not found" and
\* leaves the logs slot as it was.
C3_AmendMissingId ==
    [][(last'.op = "updateLog" /\ last'.id \notin Ids(loadLogs)) =>
        /\ last'.status = "throw"
        /\ last'.message = "Log not found"
        /\ logsSlot' = logsSlot
      ]_vars

\* An amend of an id the non-empty store does not hold has thrown.
C3_Witness ==
    /\ last.op = "updateLog"
    /\ last.message = "Log not found"
    /\ Len(loadLogs) >= 2
    /\ last.id \notin Ids(loadLogs)

\* C4: a successful updateLog(id, updates) keeps the collection's length and
\* order, changes no record but the first one of that id, leaves that record's
\* other fields as they were, gives each named field its new value, and returns
\* the record now stored.
C4_AmendFrame ==
    [][(last'.op = "updateLog" /\ last'.status = "ok") =>
        LET old == loadLogs
            new == loadLogs'
            updates == last'.arg
        IN  /\ Len(new) = Len(old)
            /\ \E i \in 1..Len(old) :
                  /\ IsFirstWithId(old, i, last'.id)
                  /\ \A j \in 1..Len(old) : j # i => new[j] = old[j]
                  /\ DOMAIN new[i] = (DOMAIN old[i]) \cup (DOMAIN updates)
                  /\ \A k \in (DOMAIN old[i]) \ (DOMAIN updates) : new[i][k] = old[i][k]
                  /\ \A k \in DOMAIN updates : new[i][k] = updates[k]
                  /\ SameRecord(last'.value, new[i])
      ]_vars

\* An amend has rewritten a record that is not the first of the store.
C4_Witness ==
    /\ last.op = "updateLog"
    /\ last.status = "ok"
    /\ Len(loadLogs) >= 2
    /\ \E i \in 2..Len(loadLogs) :
          /\ IsFirstWithId(loadLogs, i, last.id)
          /\ Get(loadLogs[i], "notes") = "amended"
          /\ Get(loadLogs[1], "notes") # "amended"

\* C5: a successful check-in, when a stored record has today's date, creates no
\* record and writes the four cognitive fields into a most recent record of today
\* and nothing else; when no record has today's date it appends exactly one
\* check-in-only record with source None, amount 0 and estimatedMg 0.
C5_CheckInUpsert ==
    [][(last'.op = "checkIn" /\ last'.status = "ok") =>
        LET old == loadLogs
            new == loadLogs'
            form == last'.arg
        IN  IF \E i \in 1..Len(old) : Get(old[i], "date") = IsoDate(now)
            THEN /\ Len(new) = Len(old)
                 /\ \E i \in 1..Len(old) :
                       /\ IsMostRecentToday(old, i, now)
                       /\ \A j \in 1..Len(old) : j # i => new[j] = old[j]
                       /\ \A k \in CognitiveFields : Get(new[i], k) = form[k]
                       /\ \A k \in (DOMAIN old[i]) \ CognitiveFields :
                             Get(new[i], k) = old[i][k]
            ELSE /\ Len(new) = Len(old) + 1
                 /\ IsPrefix(old, new)
                 /\ Get(new[Len(new)], "source") = "None"
                 /\ Get(new[Len(new)], "amount") = 0
                 /\ Get(new[Len(new)], "estimatedMg") = 0
                 /\ \A k \in CognitiveFields : Get(new[Len(new)], k) = form[k]
      ]_vars

\* The ids addLog can generate within the clock's range.
GeneratedIds == {generateId(t, rnd) : t \in StartTick..(StartTick + MaxTicks), rnd \in Rands}

\* A record the wizard created: an intake record under a generated id.
WizardCreated(log) == Get(log, "id") \in GeneratedIds /\ Get(log, "source") # "None"

C7_MostRecentToday ==
    [][(last'.op = "getMostRecentLogToday") =>
        /\ logsSlot' = logsSlot
        /\ last'.found <=> (\E i \in 1..Len(loadLogs) : Get(loadLogs[i], "date") = IsoDate(now))
        /\ last'.found =>
              \E i \in 1..Len(loadLogs) :
                  /\ loadLogs[i] = last'.value
                  /\ IsMostRecentToday(loadLogs, i, now)
      ]_vars

\* The call has returned the later of two records of today.
C7_Witness ==
    /\ last.op = "getMostRecentLogToday"
    /\ last.found
    /\ \E i \in 1..Len(loadLogs) :
          /\ Get(loadLogs[i], "date") = IsoDate(now)
          /\ Get(loadLogs[i], "timestamp") < Get(last.value, "timestamp")

\* A file that parses to an object whose logs is an array.
WellFormed(file) == file.parse = "object" /\ file.logs.kind = "array"

\* The positions of the file's records whose id no record of logs has.
NewPositions(file, logs) ==
    {k \in 1..Len(file.logs.val) : Get(file.logs.val[k], "id") \notin Ids(logs)}

\* C8: an import of a well-formed file that resolves leaves every stored record
\* unchanged at its position, appends after them exactly the file's records whose
\* ids the store did not hold, in the file's order, M of them, and reports M.
C8_ImportMergeById ==
    [][(last'.op = "import" /\ WellFormed(last'.arg) /\ last'.status = "resolve") =>
        LET old == loadLogs
            new == loadLogs'
            imported == last'.arg.logs.val
            fresh == NewPositions(last'.arg, old)
            M == Cardinality(fresh)
        IN  /\ IsPrefix(old, new)
            /\ Len(new) = Len(old) + M
            /\ last'.count = M
            /\ \A j \in (Len(old) + 1)..Len(new) :
                  \E k \in fresh :
                      /\ new[j] = imported[k]
                      /\ Cardinality({m \in fresh : m <= k}) = j - Len(old)
      ]_vars

\* The merge file has been imported into a store holding one of its two ids.
C8_Witness ==
    /\ last.op = "import"
    /\ last.status = "resolve"
    /\ last.count = 1
    /\ Len(last.arg.logs.val) = 2
    /\ Get(loadLogs[Len(loadLogs)], "id") = "other-device"
    /\ \E i \in 1..(Len(loadLogs) - 1) :
          /\ Get(loadLogs[i], "id") = Get(last.arg.logs.val[1], "id")
          /\ loadLogs[i] # last.arg.logs.val[1]

\* C9: the import of a file that does not parse, or whose logs is missing or not
\* an array, is rejected with a message, shown as an error, and leaves the logs
\* slot and the settings slot as they were.
C9_MalformedImportRejected ==
    [][(last'.op = "import" /\ ~WellFormed(last'.arg)) =>
        /\ last'.status = "reject"
        /\ last'.message # ""
        /\ last'.toast = "error"
        /\ logsSlot' = logsSlot
        /\ settingsSlot' = settingsSlot
      ]_vars

\* A file with settings but a logs that is no array has been rejected by the
\* validation, over a store that holds records.
C9_Witness ==
    /\ last.op = "import"
    /\ last.arg.logs.kind = "notArray"
    /\ last.arg.settings.kind = "object"
    /\ last.status = "reject"
    /\ last.message = "Invalid file format: missing logs array"
    /\ Len(loadLogs) > 0

\* C10: when an import resolves, every record the store held when the callback
\* ran, the ones written since the read began included, is still stored at its
\* position, and every record of the file whose id the store did not hold is
\* stored after them.
C10_ImportKeepsConcurrentWrites ==
    [][(last'.op = "import" /\ last'.status = "resolve") =>
        /\ \A i \in 1..Len(loadLogs) :
              i <= Len(loadLogs') /\ loadLogs'[i] = loadLogs[i]
        /\ \A k \in NewPositions(last'.arg, loadLogs) :
              \E j \in (Len(loadLogs) + 1)..Len(loadLogs') :
                  loadLogs'[j] = last'.arg.logs.val[k]
      ]_vars

\* An import has brought new records, and the records stored before them are
\* not the ones stored when the read began: a write came in between.
C10_Witness ==
    /\ last.op = "import"
    /\ last.status = "resolve"
    /\ last.count > 0
    /\ Len(last.atStart) > 0
    /\ SubSeq(loadLogs, 1, Len(loadLogs) - last.count) # last.atStart

\* C11: loadLogs never throws; it returns the empty array whenever the slot is
\* absent or holds anything other than what saveLogs wrote; and what it returns is
\* always an array, so that addLog, updateLog and getMostRecentLogToday run on it
\* without a TypeError.
C11_LoadLogsTotal ==
    [][/\ (last'.op = "loadLogs") =>
            /\ last'.status = "ok"
            /\ last'.kind = "array"
            /\ logsSlot.tag # "value" => last'.value = <<>>
       /\ (last'.op \in {"addLog", "updateLog", "getMostRecentLogToday"}) =>
            last'.message # "TypeError"
      ]_vars

\* C12: a rejected write is not swallowed: addLog returns only when the store
\* holds the record it returns, and updateLog only when the store holds the
\* updated record; otherwise they throw and the logs slot is as it was.
C12_WriteRejectionRaises ==
    [][/\ (last'.op = "addLog") =>
            \/ /\ last'.status = "ok"
               /\ Len(loadLogs') = Len(loadLogs) + 1
               /\ SameRecord(loadLogs'[Len(loadLogs')], last'.value)
            \/ /\ last'.status = "throw"
               /\ last'.message # ""
               /\ logsSlot' = logsSlot
       /\ (last'.op = "updateLog") =>
            \/ /\ last'.status = "ok"
               /\ \E i \in 1..Len(loadLogs') :
                     /\ Get(loadLogs'[i], "id") = last'.id
                     /\ SameRecord(loadLogs'[i], last'.value)
                     /\ \A k \in DOMAIN last'.arg : Get(loadLogs'[i], k) = last'.arg[k]
            \/ /\ last'.status = "throw"
               /\ last'.message # ""
               /\ logsSlot' = logsSlot
      ]_vars

\* The medium has rejected the write of an addLog over a store that holds records.
C12_Witness ==
    /\ last.op = "addLog"
    /\ last.status = "throw"
    /\ last.message = "Failed to save logs"
    /\ Len(loadLogs) > 0

\* The messages of the errors saveLogs and saveSettings throw on a rejected write.
WriteErrors == {"Failed to save logs", "Failed to save settings"}

\* C13: whenever the medium rejects the write of a wizard confirm, a check-in, a
\* settings save or an import, an error notice is shown and no success notice.
C13_WriteRejectionNoticed ==
    [][(/\ last'.op \in {"confirmWizard", "checkIn", "saveSettings", "import"}
        /\ last'.message \in WriteErrors)
            => last'.toast = "error"
      ]_vars

\* The reference: strength / 200 * quantity for a vape, strength * quantity for
\* cigarettes and snus, 0 for any other source and for a quantity or a strength
\* that is not positive; in doses of 1/(MgScale * StrengthScale) mg.
ReferenceMg(source, quantity, strength) ==
    IF ~(quantity > 0 /\ strength > 0) THEN 0
    ELSE CASE source = "Vape" -> (strength * quantity * MgScale) \div 200
           [] source \in {"Cigarettes", "Snus"} -> strength * quantity * MgScale
           [] OTHER -> 0

\* C14: calculateEstimatedMg equals the reference on every source, quantity and
\* strength, is never negative, and gives 6 mg for (Cigarettes, 3, 2), 10 mg for
\* (Vape, 200, 10) and 6 mg for (Snus, 4, 1.5).
C14_EstimateMg ==
    [][(last'.op = "calculateEstimatedMg") =>
        LET source == last'.arg[1]
            quantity == last'.arg[2]
            strength == last'.arg[3]
            mg == last'.value.mg
        IN  /\ mg = ReferenceMg(source, quantity, strength)
            /\ mg >= 0
            /\ (quantity <= 0 \/ strength <= 0) => mg = 0
            /\ last'.arg = <<"Cigarettes", 3, 2 * StrengthScale>> => mg = Mg(6)
            /\ last'.arg = <<"Vape", 200, 10 * StrengthScale>> => mg = Mg(10)
            /\ last'.arg = <<"Snus", 4, 3>> => mg = Mg(6)
      ]_vars

\* The estimate of 200 puffs of a vape of strength 10 has been computed: 10 mg.
C14_Witness ==
    /\ last.op = "calculateEstimatedMg"
    /\ last.arg = <<"Vape", 200, 10 * StrengthScale>>
    /\ last.value.mg = Mg(10)

\* The dates that stored records have.
StoredDates == {Get(loadLogs[i], "date") : i \in 1..Len(loadLogs)}

\* The length of the longest run of consecutive days ending today that all have
\* a record.
ReferenceStreak(dates, today) ==
    Cardinality({n \in 1..Cardinality(dates) : \A k \in 0..(n - 1) : (today - k) \in dates})

\* C15: calculateStreak is the length of the longest run of consecutive calendar
\* days ending today that each have a stored record: 0 when today has none, 2 when
\* today and yesterday have one and the day before has none, and never more than
\* the number of distinct dates stored.
C15_Streak ==
    [][(last'.op = "calculateStreak") =>
        LET today == IsoDate(now)
            streak == last'.value.streak
        IN  /\ streak = ReferenceStreak(StoredDates, today)
            /\ today \notin StoredDates => streak = 0
            /\ ({today, today - 1} \subseteq StoredDates /\ (today - 2) \notin StoredDates)
                  => streak = 2
            /\ streak <= Cardinality(StoredDates)
      ]_vars

\* A record the matrix has to count: a positive estimatedMg, a timeOfDay and both
\* levels present.
Qualifies(log) ==
    /\ Get(log, "estimatedMg") > 0
    /\ ~FalsyS(Get(log, "timeOfDay"))
    /\ ~NullishN(Get(log, "focusLevel"))
    /\ ~NullishN(Get(log, "anxietyLevel"))

\* The index of the interval among [0,5), [5,10), [10,15), [15,20), [20,infinity)
\* that holds a positive dose.
DoseInterval(mg) ==
    IF mg < Mg(5) THEN 1
    ELSE IF mg < Mg(10) THEN 2
    ELSE IF mg < Mg(15) THEN 3
    ELSE IF mg < Mg(20) THEN 4 ELSE 5

\* The positions of the qualifying records of the cell of dose interval d and
\* time of day time.
QualifyingIn(logs, d, time) ==
    {i \in 1..Len(logs) : /\ Qualifies(logs[i])
                          /\ DoseInterval(Get(logs[i], "estimatedMg")) = d
                          /\ Get(logs[i], "timeOfDay") = time}

RECURSIVE SumOver(_, _)
SumOver(f, S) ==
    IF S = {} THEN 0 ELSE LET x == CHOOSE x \in S : TRUE IN f[x] + SumOver(f, S \ {x})

\* C16: computeSweetSpotMatrix counts each qualifying record (positive estimatedMg,
\* a timeOfDay, both levels present) in exactly the cell of its timeOfDay and of the
\* interval among [0,5), [5,10), [10,15), [15,20), [20,infinity) holding its dose, and
\* no other record in any cell: each cell's count is the number of its qualifying
\* records and the counts add up to the number of qualifying records.
C16_SweetSpotPlacement ==
    [][(last'.op = "computeSweetSpotMatrix") =>
        /\ last'.status = "ok"
        /\ \A c \in DOMAIN last'.value :
              last'.value[c].count = Cardinality(QualifyingIn(loadLogs, c[1], timeBuckets[c[2]]))
        /\ SumOver([c \in DOMAIN last'.value |-> last'.value[c].count], DOMAIN last'.value)
              = Cardinality({i \in 1..Len(loadLogs) : Qualifies(loadLogs[i])})
      ]_vars

\* Two quotients are the same number.
RatEq(a, b) == a.num * b.den = b.num * a.den

\* C17: every populated cell of the matrix reports the means of its records'
\* levels and metric = ((avgFocus - avgAnxiety) + 9) / 18 * 100 clamped to [0,100]
\* (about 83.3 for one record of focus 8 and anxiety 2); every empty cell reports
\* count 0 and metric 0; with levels in 1..10 every metric lies in [0,100].
C17_SweetSpotMetric ==
    [][(last'.op = "computeSweetSpotMatrix" /\ last'.status = "ok") =>
        \A c \in DOMAIN last'.value :
            LET cell == last'.value[c]
                at == QualifyingIn(loadLogs, c[1], timeBuckets[c[2]])
                n == cell.count
                sumFocus == SumOver([i \in at |-> loadLogs[i].focusLevel], at)
                sumAnxiety == SumOver([i \in at |-> loadLogs[i].anxietyLevel], at)
                \* 18 * n * ((avgFocus - avgAnxiety) + 9) / 18 * 100
                scaled == 100 * (sumFocus - sumAnxiety + 9 * n)
            IN  /\ n = 0 => cell.metric.num = 0
                /\ (n > 0 /\ n = Cardinality(at)) =>
                      /\ cell.avgFocus.num * n = sumFocus * cell.avgFocus.den
                      /\ cell.avgAnxiety.num * n = sumAnxiety * cell.avgAnxiety.den
                      /\ IF scaled < 0 THEN cell.metric.num = 0
                         ELSE IF scaled > 100 * 18 * n THEN RatEq(cell.metric, RatInt(100))
                         ELSE cell.metric.num * 18 * n = scaled * cell.metric.den
                      /\ (n = 1 /\ sumFocus = 8 /\ sumAnxiety = 2) =>
                            /\ 833 * cell.metric.den <= 10 * cell.metric.num
                            /\ 10 * cell.metric.num < 834 * cell.metric.den
                /\ cell.metric.den > 0
                /\ 0 <= cell.metric.num
                /\ cell.metric.num <= 100 * cell.metric.den
      ]_vars

\* The matrix of two records of one cell (7 mg in the evening, levels 8/2 and 3/9)
\* has been computed: count 2, mean focus 5.5, mean anxiety 5.5, metric 50.
C17_Witness ==
    /\ last.op = "computeSweetSpotMatrix"
    /\ last.status = "ok"
    /\ last.value[<<2, 3>>].count = 2
    /\ RatEq(last.value[<<2, 3>>].avgFocus, Rat(11, 2))
    /\ RatEq(last.value[<<2, 3>>].metric, RatInt(50))
    /\ last.value[<<1, 1>>].count = 0

\* The positions of the records of the day date, and those among them that have
\* the level key.
DayPositions(logs, date) == {i \in 1..Len(logs) : Get(logs[i], "date") = date}
LevelPositions(logs, date, key) ==
    {i \in DayPositions(logs, date) : Get(logs[i], key) \notin {NullN, UndefN}}

\* avg is the mean of the level key over the records of the day that have it, and
\* null when none has.
IsDayMean(avg, logs, date, key) ==
    LET at == LevelPositions(logs, date, key)
    IN  IF at = {} THEN avg.kind = "null"
        ELSE /\ avg.kind = "number"
             /\ avg.num * Cardinality(at) = SumOver([i \in at |-> logs[i][key]], at) * avg.den

\* C18: getDailyStats(d, logs) reports as eventCount the number of records dated d,
\* as totalMg the sum of their estimatedMg with an absent one counting 0, as
\* avgFocus and avgAnxiety the means over the records of the day that have the
\* level, null when none has; for a day without records: 0, 0, null, null.
C18_DailyStats ==
    [][(last'.op = "getDailyStats") =>
        LET date == last'.arg
            stats == last'.value
            day == DayPositions(loadLogs, date)
        IN  /\ stats.eventCount = Cardinality(day)
            /\ stats.totalMg =
                  SumOver([i \in day |->
                              IF Get(loadLogs[i], "estimatedMg") \in {NullN, UndefN} THEN 0
                              ELSE loadLogs[i].estimatedMg], day)
            /\ IsDayMean(stats.avgFocus, loadLogs, date, "focusLevel")
            /\ IsDayMean(stats.avgAnxiety, loadLogs, date, "anxietyLevel")
            /\ day = {} => /\ stats.eventCount = 0
                           /\ stats.totalMg = 0
                           /\ stats.avgFocus.kind = "null"
                           /\ stats.avgAnxiety.kind = "null"
      ]_vars

\* The stats of a day with two records have been computed, one of them without an
\* anxiety level: the mean anxiety is that of the other record alone.
C18_Witness ==
    /\ last.op = "getDailyStats"
    /\ last.value.eventCount = 2
    /\ Cardinality(LevelPositions(loadLogs, last.arg, "anxietyLevel")) = 1
    /\ last.value.avgAnxiety.kind = "number"
    /\ last.value.totalMg > 0

\* C19: the dailyMgLimit that loadSettings returns is greater than 0 in every
\* reachable state, whatever was entered in the settings form and whatever
\* settings an import carried, and it is 40 while nothing was saved.
C19_DailyMgLimitPositive ==
    /\ loadSettings(settingsSlot, tzOffset).dailyMgLimit > 0
    /\ settingsSlot = Absent => loadSettings(settingsSlot, tzOffset).dailyMgLimit = 40

\* C20: every record that a confirm of the wizard stores has a source among Vape,
\* Cigarettes and Snus, an amount greater than 0, and focusLevel, anxietyLevel,
\* clearThinking and notes null, after every sequence of wizard events in which
\* confirm is clicked only while the confirm button is shown and not disabled.
C20_WizardRecord ==
    [][(last'.op = "confirmWizard" /\ last'.status = "ok") =>
        LET created == loadLogs'[Len(loadLogs')]
        IN  /\ Len(loadLogs') = Len(loadLogs) + 1
            /\ Get(created, "source") \in {"Vape", "Cigarettes", "Snus"}
            /\ Get(created, "amount") > 0
            /\ Get(created, "focusLevel") = NullN
            /\ Get(created, "anxietyLevel") = NullN
            /\ Get(created, "clearThinking") = NullS
            /\ Get(created, "notes") = NullS
      ]_vars

\* A confirm has stored a record after the user went back to step 1: the wizard's
\* source is not the one its estimate was computed for, and the reason was typed.
C20_Witness ==
    /\ last.op = "confirmWizard"
    /\ last.status = "ok"
    /\ loadLogs[Len(loadLogs)].source = "Snus"
    /\ loadLogs[Len(loadLogs)].reason = "party"
    /\ loadLogs[Len(loadLogs)].estimatedMg = calculateEstimatedMg("Vape", 3, 2 * StrengthScale)

\* The calendar date of the instant t on the clock of a browser whose
\* getTimezoneOffset() is off.
LocalDate(t, off) == (t - off) \div TicksPerDay

\* C21: the date that a wizard confirm and a check-in-only creation store is the
\* calendar date of the creation instant in the user's local time, in every time
\* zone, and the today of getMostRecentLogToday is that local date.
C21_LocalDate ==
    [][/\ (/\ last'.status = "ok"
           /\ \/ last'.op = "confirmWizard"
              \/ last'.op = "checkIn" /\ ~last'.found)
          => Get(loadLogs'[Len(loadLogs')], "date") = LocalDate(now, tzOffset)
       /\ (last'.op = "getMostRecentLogToday" /\ last'.found)
          => Get(last'.value, "date") = LocalDate(now, tzOffset)
      ]_vars

\* C22: the estimatedMg that a wizard confirm stores is defined and is
\* calculateEstimatedMg of the source, the quantity and the strength the wizard
\* holds when confirm is clicked, after every sequence of wizard events.
C22_EstimateCurrent ==
    [][(last'.op = "confirmWizard" /\ last'.status = "ok") =>
        LET created == loadLogs'[Len(loadLogs')]
        IN  /\ Get(created, "estimatedMg") # UndefN
            /\ Get(created, "estimatedMg") # NullN
            /\ Get(created, "estimatedMg") =
                  ReferenceMg(wizardData.source, wizardData.quantity, wizardData.strength)
      ]_vars

\* C23: whenever an import rejects, for whatever reason, the stored logs and the
\* stored settings are what they were before it; whenever it resolves, the merged
\* logs are stored and so are the merged settings of a file that carries settings.
C23_ImportAllOrNothing ==
    [][(last'.op = "import") =>
        /\ last'.status = "reject" => /\ logsSlot' = logsSlot
                                      /\ settingsSlot' = settingsSlot
        /\ last'.status = "resolve" =>
              /\ logsSlot'.tag = "value"
              /\ last'.arg.settings.kind = "object" =>
                    /\ settingsSlot'.tag = "value"
                    /\ \A k \in DOMAIN last'.arg.settings.val :
                          settingsSlot'.val[k] = last'.arg.settings.val[k]
      ]_vars

\* A step of the wizard is valid: at step 1 a source is set and the quantity and
\* the strength are greater than 0, at step 2 there is a health effect, at step 3 a
\* reason is set, with a non-empty other reason when it is Other.
StepValid(step, wd) ==
    CASE step = 1 -> wd.source \in {"Vape", "Cigarettes", "Snus"} /\ wd.quantity > 0
                     /\ wd.strength > 0
      [] step = 2 -> wd.healthEffects # <<>>
      [] step = 3 -> /\ wd.reason \notin {NullS, UndefS}
                     /\ wd.reason = "Other" => wd.otherReason \notin {NullS, UndefS, ""}
      [] OTHER -> TRUE

\* C24: currentWizardStep stays in 1..4; nextWizardStep moves from a valid step to
\* the next one and leaves an invalid step as it is; prevWizardStep moves back by
\* one, never below 1; openWizard resets to step 1 with empty wizard data; the step
\* only ever grows by one, through nextWizardStep, from a step that is valid.
C24_WizardOrder ==
    [][/\ currentWizardStep' \in 1..4
       /\ last'.op = "nextWizardStep" =>
             currentWizardStep' = IF StepValid(currentWizardStep, wizardData)
                                  THEN currentWizardStep + 1 ELSE currentWizardStep
       /\ last'.op = "prevWizardStep" =>
             currentWizardStep' = currentWizardStep - 1 /\ currentWizardStep' >= 1
       /\ last'.op = "openWizard" =>
             /\ currentWizardStep' = 1
             /\ wizardData'.source = NullS /\ wizardData'.quantity = NullN
             /\ wizardData'.strength = 0 /\ wizardData'.healthEffects = <<>>
             /\ wizardData'.reason = NullS /\ wizardData'.otherReason = NullS
             /\ "estimatedMg" \notin DOMAIN wizardData'
       /\ currentWizardStep' > currentWizardStep =>
             /\ last'.op = "nextWizardStep"
             /\ currentWizardStep' = currentWizardStep + 1
             /\ StepValid(currentWizardStep, wizardData)
      ]_vars

\* nextWizardStep has brought the wizard to step 4 with a reason typed by the user.
C24_Witness ==
    /\ last.op = "nextWizardStep"
    /\ wizardOpen
    /\ currentWizardStep = 4
    /\ wizardData.reason = "Other"
    /\ wizardData.otherReason = "party"
    /\ ~buttonsDisabled

\* The ids of a collection, in its order.
IdSeq(logs) == [i \in 1..Len(logs) |-> Get(logs[i], "id")]

\* C25: a successful addLog, updateLog, check-in, import or initializeSampleData on
\* a store that holds a non-empty collection leaves the ids stored before it as a
\* prefix of the ids stored after it, and initializeSampleData changes nothing.
C25_OnlyGrows ==
    [][(/\ loadLogsKind(logsSlot) = "array"
        /\ Len(loadLogs) > 0
        /\ \/ last'.op \in {"addLog", "updateLog", "checkIn", "initApp"} /\ last'.status = "ok"
           \/ last'.op = "import" /\ last'.status = "resolve") =>
        /\ IsPrefix(IdSeq(loadLogs), IdSeq(loadLogs'))
        /\ last'.op = "initApp" => logsSlot' = logsSlot
      ]_vars

====
